---------------------------- MODULE Spec2Model ----------------------------
(* Decision Wheel Comparator: the working set of wheels kept by the       *)
(* DecisionWheelApp component (src/src/App.tsx), its event handlers, and   *)
(* the validation utilities (utils/validation) they call.                  *)
(*                                                                         *)
(* Strings are sequences of one-character strings, so that the regular     *)
(* expressions of the sanitizer act on characters as they do in the code.  *)
EXTENDS Integers, Sequences, FiniteSets, TLC

VARIABLES wheels, nextWheelId, selectedSegment, lastOp, call, browser

vars == <<wheels, nextWheelId, selectedSegment, lastOp, call, browser>>

appVars == <<wheels, nextWheelId, selectedSegment, lastOp>>

(***************************************************************************)
(* APP_CONSTANTS (src/src/types.ts)                                        *)
(***************************************************************************)
MAX_WHEELS == 3
MIN_WHEELS == 2
MIN_SEGMENTS == 1
MAX_SEGMENTS == 20
MIN_VALUE == 0
MAX_VALUE == 10
MAX_NAME_LENGTH == 50
MAX_SEGMENT_NAME_LENGTH == 50
MAX_FILE_NAME_LENGTH == 100
DEFAULT_VALUE == 5

COLOR_PALETTE ==
  << <<"#","6","0","A","5","F","A">>,
     <<"#","3","4","D","3","9","9">>,
     <<"#","F","5","9","E","0","B">>,
     <<"#","E","F","4","4","4","4">>,
     <<"#","8","B","5","C","F","6">> >>

(***************************************************************************)
(* Bounds of the model                                                     *)
(***************************************************************************)
\* nextWheelId grows without limit in the code; addWheel is explored while
\* nextWheelId is below this cap.
MaxWheelId == 5
\* number of tokens concatenated into a raw text input of the sanitizer
MaxTokens == 3
\* numeric raw values are explored from -MaxTenths/10 to (100+MaxTenths)/10
MaxTenths == 60
\* in the specifications that are not about the number of segments,
\* addSegment is explored on wheels with fewer segments than this
MaxExploredSegments == 5
\* calculateAverage is explored on wheels of up to 4 * MaxRun segments
MaxRun == 10
\* doConsiderationsMatch is explored on wheels of up to MaxNames segments
MaxNames == 2
\* rankings are explored on wheels of up to 2 * MaxTied segments
MaxTied == 3
\* number of exports started in one session of the page
MaxExports == 2

(***************************************************************************)
(* Characters                                                              *)
(***************************************************************************)
UpperSeq == <<"A","B","C","D","E","F","G","H","I","J","K","L","M","N","O","P","Q","R","S","T","U","V","W","X","Y","Z">>
LowerSeq == <<"a","b","c","d","e","f","g","h","i","j","k","l","m","n","o","p","q","r","s","t","u","v","w","x","y","z">>
DigitSeq == <<"0","1","2","3","4","5","6","7","8","9">>

Range(f) == {f[i] : i \in DOMAIN f}

\* String.prototype.toLowerCase on one character (the /i flag of the regexes)
toLowerCase(c) ==
  IF \E i \in DOMAIN UpperSeq : UpperSeq[i] = c
  THEN LowerSeq[CHOOSE i \in DOMAIN UpperSeq : UpperSeq[i] = c]
  ELSE c

\* the class \w of a JavaScript regular expression
IsWordChar(c) == c \in Range(UpperSeq) \cup Range(LowerSeq) \cup Range(DigitSeq) \cup {"_"}

\* characters removed by String.prototype.trim
IsWhitespace(c) == c \in {" ", "\t", "\n"}

\* s.slice(0, n)
Slice(s, n) == IF Len(s) <= n THEN s ELSE SubSeq(s, 1, n)

\* s with its first n characters dropped
Drop(s, n) == SubSeq(s, n + 1, Len(s))

\* a string of n copies of the character c
Repeat(c, n) == [i \in 1..n |-> c]

\* s.replace(/[...]/g, '') for a character class given as a set
RemoveChars(s, class) ==
  LET keep(c) == c \notin class IN SelectSeq(s, keep)

\* does s have the literal pat at position i; ci = the /i flag
LiteralAt(s, i, pat, ci) ==
  /\ i + Len(pat) - 1 <= Len(s)
  /\ \A j \in 1..Len(pat) :
       IF ci THEN toLowerCase(s[i + j - 1]) = toLowerCase(pat[j])
       ELSE s[i + j - 1] = pat[j]

\* the least element of a non-empty set of integers
Least(S) == CHOOSE x \in S : \A y \in S : x <= y

\* s.replace(/pat/g, '') for a literal pattern: the leftmost match is
\* removed and the search goes on after it, so matches do not overlap and
\* the text that removals bring together is not searched again
RECURSIVE RemoveLiteral(_, _, _)
RemoveLiteral(s, pat, ci) ==
  LET at == {i \in 1..Len(s) : LiteralAt(s, i, pat, ci)}
  IN IF at = {} THEN s
     ELSE LET i == Least(at)
          IN SubSeq(s, 1, i - 1) \o RemoveLiteral(Drop(s, i + Len(pat) - 1), pat, ci)

\* length of the match of /on\w+=/i at position i of s, 0 when there is
\* none. \w+ is greedy and '=' is not a word character, so the only
\* candidate is the whole run of word characters after "on".
EventHandlerMatch(s, i) ==
  IF i + 3 <= Len(s) /\ toLowerCase(s[i]) = "o" /\ toLowerCase(s[i + 1]) = "n"
  THEN LET stops == {j \in (i + 2)..Len(s) : ~IsWordChar(s[j])}
       IN IF stops = {} THEN 0
          ELSE LET j == Least(stops)
               IN IF j >= i + 3 /\ s[j] = "=" THEN j - i + 1 ELSE 0
  ELSE 0

\* s.replace(/on\w+=/gi, ''), searched like RemoveLiteral
RECURSIVE RemoveEventHandlers(_)
RemoveEventHandlers(s) ==
  LET at == {i \in 1..Len(s) : EventHandlerMatch(s, i) > 0}
  IN IF at = {} THEN s
     ELSE LET i == Least(at)
          IN SubSeq(s, 1, i - 1)
               \o RemoveEventHandlers(Drop(s, i + EventHandlerMatch(s, i) - 1))

\* String.prototype.trim
Trim(s) ==
  LET solid == {i \in 1..Len(s) : ~IsWhitespace(s[i])}
  IN IF solid = {} THEN <<>>
     ELSE SubSeq(s, Least(solid), CHOOSE x \in solid : \A y \in solid : y <= x)

\* String.prototype.trimStart, as parseInt skips leading whitespace
TrimStart(s) ==
  LET solid == {i \in 1..Len(s) : ~IsWhitespace(s[i])}
  IN IF solid = {} THEN <<>> ELSE Drop(s, Least(solid) - 1)

JAVASCRIPT_PROTOCOL == <<"j","a","v","a","s","c","r","i","p","t",":">>

(***************************************************************************)
(* utils/validation                                                        *)
(***************************************************************************)
sanitizeTextInput(input) ==
  Trim(RemoveEventHandlers(
         RemoveLiteral(RemoveChars(input, {"<", ">"}), JAVASCRIPT_PROTOCOL, TRUE)))

UNNAMED_OPPORTUNITY == <<"U","n","n","a","m","e","d"," ","O","p","p","o","r","t","u","n","i","t","y">>
UNNAMED_FACTOR == <<"U","n","n","a","m","e","d"," ","F","a","c","t","o","r">>

\* validateWheelName that forgets the truncation
validateWheelName_NoSlice(name) ==
  LET sanitized == sanitizeTextInput(name)
  IN IF Len(sanitized) = 0 THEN UNNAMED_OPPORTUNITY ELSE sanitized

validateWheelName(name) ==
  LET sanitized == sanitizeTextInput(name)
  IN IF Len(sanitized) = 0 THEN UNNAMED_OPPORTUNITY
     ELSE Slice(sanitized, MAX_NAME_LENGTH)

validateSegmentName(name) ==
  LET sanitized == sanitizeTextInput(name)
  IN IF Len(sanitized) = 0 THEN UNNAMED_FACTOR
     ELSE Slice(sanitized, MAX_SEGMENT_NAME_LENGTH)

\* --- numbers -------------------------------------------------------------
\* A JavaScript value handed to validateValue:
\*   k = "num": the finite number t/10      k = "nan": NaN
\*   k = "inf": +Infinity (t > 0) or -Infinity (t < 0)
\*   k = "str": the string s
Num(t) == [k |-> "num", t |-> t, s |-> <<>>]
NaN == [k |-> "nan", t |-> 0, s |-> <<>>]
Infinity == [k |-> "inf", t |-> 1, s |-> <<>>]
NegInfinity == [k |-> "inf", t |-> -1, s |-> <<>>]
Str(s) == [k |-> "str", t |-> 0, s |-> s]

IsDigit(c) == c \in Range(DigitSeq)
DigitValue(c) == (CHOOSE i \in DOMAIN DigitSeq : DigitSeq[i] = c) - 1

\* value of the longest prefix of decimal digits of s, continuing from acc
RECURSIVE ParseDigits(_, _)
ParseDigits(s, acc) ==
  IF s = <<>> \/ ~IsDigit(Head(s)) THEN acc
  ELSE ParseDigits(Tail(s), 10 * acc + DigitValue(Head(s)))

\* parseInt(s, 10): leading whitespace is skipped, one optional sign, then
\* the longest run of digits; NaN when there is no digit
parseInt(s) ==
  LET t == TrimStart(s)
      neg == t # <<>> /\ Head(t) = "-"
      body == IF t # <<>> /\ Head(t) \in {"-", "+"} THEN Tail(t) ELSE t
  IN IF body = <<>> \/ ~IsDigit(Head(body)) THEN NaN
     ELSE Num(10 * (IF neg THEN -1 ELSE 1) * ParseDigits(body, 0))

isNaN(n) == n.k = "nan"
isFinite(n) == n.k = "num"

\* Math.round: the nearest integer, halves towards +Infinity = floor(x + 0.5)
MathRound(n) == (n.t + 5) \div 10

Max(a, b) == IF a >= b THEN a ELSE b
Min(a, b) == IF a <= b THEN a ELSE b

\* validateValue that rounds but does not clamp
validateValue_NoClamp(value) ==
  LET numValue == IF value.k = "str" THEN parseInt(value.s) ELSE value
  IN IF isNaN(numValue) \/ ~isFinite(numValue) THEN DEFAULT_VALUE
     ELSE MathRound(numValue)

validateValue(value) ==
  LET numValue == IF value.k = "str" THEN parseInt(value.s) ELSE value
  IN IF isNaN(numValue) \/ ~isFinite(numValue) THEN DEFAULT_VALUE
     ELSE Max(MIN_VALUE, Min(MAX_VALUE, MathRound(numValue)))

\* --- colours -------------------------------------------------------------
IsHexDigit(c) == c \in Range(DigitSeq) \cup {"A","B","C","D","E","F","a","b","c","d","e","f"}

\* /^#([A-Fa-f0-9]{6}|[A-Fa-f0-9]{3})$/
validateColor(color) ==
  IF /\ Len(color) \in {4, 7}
     /\ color[1] = "#"
     /\ \A i \in 2..Len(color) : IsHexDigit(color[i])
  THEN color
  ELSE COLOR_PALETTE[1]

\* --- file names ----------------------------------------------------------
RESERVED_FILE_CHARS == {"/", "\\", ":", "*", "?", "\"", "<", ">", "|"}

\* validateFileName that does not remove the '..' sequences
validateFileName_KeepDots(filename) ==
  Slice(RemoveChars(sanitizeTextInput(filename), RESERVED_FILE_CHARS),
        MAX_FILE_NAME_LENGTH)

validateFileName(filename) ==
  Slice(RemoveLiteral(RemoveChars(sanitizeTextInput(filename), RESERVED_FILE_CHARS),
                      <<".", ".">>, FALSE),
        MAX_FILE_NAME_LENGTH)


(***************************************************************************)
(* DecisionWheelApp: state and event handlers (src/src/App.tsx)            *)
(***************************************************************************)
Segment(id, name, value) == [id |-> id, name |-> name, value |-> value]

Wheel(id, name, color, segments) ==
  [id |-> id, name |-> name, color |-> color, segments |-> segments]

OPPORTUNITY_ == <<"O","p","p","o","r","t","u","n","i","t","y"," ">>
FACTOR_ == <<"F","a","c","t","o","r"," ">>
NEW_FACTOR == <<"N","e","w"," ","F","a","c","t","o","r">>

\* useState<Wheel[]>([...]): the two sample wheels
InitialWheels ==
  << Wheel(1, OPPORTUNITY_ \o <<"A">>, COLOR_PALETTE[1],
       << Segment(1, <<"L","o","c","a","t","i","o","n">>, 10),
          Segment(2, <<"I","n","v","e","s","t","m","e","n","t">>, 7),
          Segment(3, <<"T","i","m","e">>, 5),
          Segment(4, <<"I","n","t","e","r","i","o","r"," ","D","e","s","i","g","n">>, 5),
          Segment(5, <<"S","p","a","c","e">>, 10),
          Segment(6, <<"N","e","i","g","h","b","o","u","r","s">>, 5) >>),
     Wheel(2, OPPORTUNITY_ \o <<"B">>, COLOR_PALETTE[2],
       << Segment(1, <<"L","o","c","a","t","i","o","n">>, 8),
          Segment(2, <<"I","n","v","e","s","t","m","e","n","t">>, 5),
          Segment(3, <<"T","i","m","e">>, 7),
          Segment(4, <<"I","n","t","e","r","i","o","r"," ","D","e","s","i","g","n">>, 6) >>) >>

\* the operation that ran last: its name, its two id arguments (0 when it
\* has none) and, in n, the size it found: the number of wheels for
\* addWheel and removeWheel, the number of segments of the wheel it was
\* given for the other handlers (0 when no wheel has that id)
Op(op, a, b, n) == [op |-> op, a |-> a, b |-> b, n |-> n]

Null == [wheelId |-> 0, segmentId |-> 0]

\* Math.max(0, ...ids)
RECURSIVE MaxOf(_)
MaxOf(S) ==
  IF S = {} THEN 0
  ELSE LET x == CHOOSE x \in S : TRUE IN Max(x, MaxOf(S \ {x}))

HasWheel(ws, wheelId) == \E i \in DOMAIN ws : ws[i].id = wheelId

\* wheels.find(w => w.id === wheelId), for an id that is present
FindWheel(ws, wheelId) ==
  ws[CHOOSE i \in DOMAIN ws : ws[i].id = wheelId /\ \A j \in 1..(i - 1) : ws[j].id # wheelId]

\* the number of segments of the wheel with this id, 0 when there is none
SegmentCount(ws, wheelId) ==
  IF HasWheel(ws, wheelId) THEN Len(FindWheel(ws, wheelId).segments) ELSE 0

\* what the page holds besides the component state: whether the
\* '.wheels-container' element is there and holds svg elements, the object
\* URLs that are live (URL.createObjectURL numbers them from nextUrl), the
\* download links appended to document.body, the files downloaded, the
\* alerts shown, the calls of console.error, the errors thrown out of
\* callbacks (nobody catches them), the pending setTimeout callbacks, the
\* images being decoded, the pending canvas.toBlob callbacks, and the
\* number of exports started
Page(container) ==
  [ container |-> container, urls |-> {}, nextUrl |-> 1, links |-> {},
    downloads |-> <<>>, alerts |-> <<>>, console |-> <<>>, uncaught |-> <<>>,
    timers |-> {}, loading |-> {}, blobs |-> {}, exports |-> 0 ]

InitApp ==
  /\ wheels = InitialWheels
  /\ nextWheelId = 3
  /\ selectedSegment = Null
  /\ lastOp = Op("init", 0, 0, 0)
  /\ browser = Page("wheels")

handleSegmentClick(wheelId, segmentId) ==
  /\ selectedSegment' = [wheelId |-> wheelId, segmentId |-> segmentId]
  /\ lastOp' = Op("handleSegmentClick", wheelId, segmentId, SegmentCount(wheels, wheelId))
  /\ UNCHANGED <<wheels, nextWheelId, call, browser>>

\* COLOR_PALETTE.find(c => !usedColors.includes(c)) || COLOR_PALETTE[n % 5]
AvailableColor(ws) ==
  LET usedColors == {ws[i].color : i \in DOMAIN ws}
      free == {i \in DOMAIN COLOR_PALETTE : COLOR_PALETTE[i] \notin usedColors}
  IN IF free # {}
     THEN COLOR_PALETTE[CHOOSE i \in free : \A j \in free : i <= j]
     ELSE COLOR_PALETTE[(Len(ws) % Len(COLOR_PALETTE)) + 1]

NewWheel(ws, id) ==
  Wheel(id, OPPORTUNITY_ \o <<UpperSeq[Len(ws) + 1]>>, AvailableColor(ws),
        << Segment(1, FACTOR_ \o <<"1">>, 5),
           Segment(2, FACTOR_ \o <<"2">>, 5),
           Segment(3, FACTOR_ \o <<"3">>, 5) >>)

\* addWheel that lets a fourth wheel in (> for >=)
addWheel_OffByOne ==
  /\ lastOp' = Op("addWheel", 0, 0, Len(wheels))
  /\ IF Len(wheels) > MAX_WHEELS
     THEN UNCHANGED <<wheels, nextWheelId>>
     ELSE /\ wheels' = Append(wheels, NewWheel(wheels, nextWheelId))
          /\ nextWheelId' = nextWheelId + 1
  /\ UNCHANGED <<selectedSegment, call, browser>>

\* addWheel that numbers the new wheel by its position
addWheel_IdFromLength ==
  /\ lastOp' = Op("addWheel", 0, 0, Len(wheels))
  /\ IF Len(wheels) >= MAX_WHEELS
     THEN UNCHANGED <<wheels, nextWheelId>>
     ELSE /\ wheels' = Append(wheels, NewWheel(wheels, Len(wheels) + 1))
          /\ nextWheelId' = nextWheelId + 1
  /\ UNCHANGED <<selectedSegment, call, browser>>

addWheel ==
  /\ lastOp' = Op("addWheel", 0, 0, Len(wheels))
  /\ IF Len(wheels) >= MAX_WHEELS
     THEN UNCHANGED <<wheels, nextWheelId>>
     ELSE /\ wheels' = Append(wheels, NewWheel(wheels, nextWheelId))
          /\ nextWheelId' = nextWheelId + 1
  /\ UNCHANGED <<selectedSegment, call, browser>>

removeWheel(wheelId) ==
  /\ lastOp' = Op("removeWheel", wheelId, 0, Len(wheels))
  /\ IF Len(wheels) <= MIN_WHEELS
     THEN UNCHANGED wheels
     ELSE LET keep(w) == w.id # wheelId IN wheels' = SelectSeq(wheels, keep)
  /\ UNCHANGED <<nextWheelId, selectedSegment, call, browser>>

updateWheelName(wheelId, name) ==
  /\ lastOp' = Op("updateWheelName", wheelId, 0, SegmentCount(wheels, wheelId))
  /\ LET sanitizedName == validateWheelName(name)
         upd(w) == IF w.id = wheelId THEN [w EXCEPT !.name = sanitizedName] ELSE w
     IN wheels' = [i \in DOMAIN wheels |-> upd(wheels[i])]
  /\ UNCHANGED <<nextWheelId, selectedSegment, call, browser>>

\* updateWheelColor without the test of the wheel id
updateWheelColor_EveryWheel(wheelId, color) ==
  /\ lastOp' = Op("updateWheelColor", wheelId, 0, SegmentCount(wheels, wheelId))
  /\ LET validColor == validateColor(color)
         upd(w) == [w EXCEPT !.color = validColor]
     IN wheels' = [i \in DOMAIN wheels |-> upd(wheels[i])]
  /\ UNCHANGED <<nextWheelId, selectedSegment, call, browser>>

updateWheelColor(wheelId, color) ==
  /\ lastOp' = Op("updateWheelColor", wheelId, 0, SegmentCount(wheels, wheelId))
  /\ LET validColor == validateColor(color)
         upd(w) == IF w.id = wheelId THEN [w EXCEPT !.color = validColor] ELSE w
     IN wheels' = [i \in DOMAIN wheels |-> upd(wheels[i])]
  /\ UNCHANGED <<nextWheelId, selectedSegment, call, browser>>

\* the map callback of addSegment that numbers the new segment by position
AddSegmentTo_IdFromLength(w) ==
  IF Len(w.segments) >= MAX_SEGMENTS THEN w
  ELSE LET newId == Len(w.segments) + 1
       IN [w EXCEPT !.segments = Append(w.segments, Segment(newId, NEW_FACTOR, 5))]

\* the map callback of addSegment, for the wheel whose id matches
AddSegmentTo(w) ==
  IF Len(w.segments) >= MAX_SEGMENTS THEN w
  ELSE LET newId == MaxOf({0} \cup {w.segments[i].id : i \in DOMAIN w.segments}) + 1
       IN [w EXCEPT !.segments = Append(w.segments, Segment(newId, NEW_FACTOR, 5))]

addSegment(wheelId) ==
  /\ lastOp' = Op("addSegment", wheelId, 0, SegmentCount(wheels, wheelId))
  /\ LET upd(w) == IF w.id = wheelId THEN AddSegmentTo(w) ELSE w
     IN wheels' = [i \in DOMAIN wheels |-> upd(wheels[i])]
  /\ UNCHANGED <<nextWheelId, selectedSegment, call, browser>>

\* the map callback of removeSegment without the MIN_SEGMENTS check
RemoveSegmentFrom_NoFloor(w, segmentId) ==
  LET keep(s) == s.id # segmentId
  IN [w EXCEPT !.segments = SelectSeq(w.segments, keep)]

\* the map callback of removeSegment, for the wheel whose id matches
RemoveSegmentFrom(w, segmentId) ==
  IF Len(w.segments) <= MIN_SEGMENTS THEN w
  ELSE LET keep(s) == s.id # segmentId
       IN [w EXCEPT !.segments = SelectSeq(w.segments, keep)]

removeSegment(wheelId, segmentId) ==
  /\ lastOp' = Op("removeSegment", wheelId, segmentId, SegmentCount(wheels, wheelId))
  /\ LET upd(w) == IF w.id = wheelId THEN RemoveSegmentFrom(w, segmentId) ELSE w
     IN wheels' = [i \in DOMAIN wheels |-> upd(wheels[i])]
  /\ UNCHANGED <<nextWheelId, selectedSegment, call, browser>>

\* updateSegment: field is "name" (value is a string) or "value" (value is
\* a JavaScript value as described at Num)
updateSegment(wheelId, segmentId, field, value) ==
  /\ lastOp' = Op(IF field = "name" THEN "updateSegmentName" ELSE "updateSegmentValue",
                  wheelId, segmentId, SegmentCount(wheels, wheelId))
  /\ LET updSeg(s) ==
           IF s.id = segmentId
           THEN IF field = "name"
                THEN [s EXCEPT !.name = validateSegmentName(value)]
                ELSE [s EXCEPT !.value = validateValue(value)]
           ELSE s
         upd(w) == IF w.id = wheelId
                   THEN [w EXCEPT !.segments = [i \in DOMAIN w.segments |-> updSeg(w.segments[i])]]
                   ELSE w
     IN wheels' = [i \in DOMAIN wheels |-> upd(wheels[i])]
  /\ UNCHANGED <<nextWheelId, selectedSegment, call, browser>>

\* the segments copyConsiderationsToWheel builds from those of fromWheel
CopiedSegments(fromWheel) ==
  [index \in DOMAIN fromWheel.segments |->
     Segment(index, validateSegmentName(fromWheel.segments[index].name), 5)]

copyConsiderationsToWheel(fromWheelId, toWheelId) ==
  /\ lastOp' = Op("copyConsiderationsToWheel", fromWheelId, toWheelId,
                  SegmentCount(wheels, fromWheelId))
  /\ IF ~HasWheel(wheels, fromWheelId)
     THEN UNCHANGED wheels
     ELSE LET fromWheel == FindWheel(wheels, fromWheelId)
              upd(w) == IF w.id = toWheelId
                        THEN [w EXCEPT !.segments = CopiedSegments(fromWheel)]
                        ELSE w
          IN wheels' = [i \in DOMAIN wheels |-> upd(wheels[i])]
  /\ UNCHANGED <<nextWheelId, selectedSegment, call, browser>>


(***************************************************************************)
(* The user: which handler is called next, and with which arguments.       *)
(* E names the arguments that are tried: the handlers are the same in      *)
(* every specification, only the inputs explored differ.                   *)
(*   E.maxWheelId   addWheel is tried while nextWheelId is below it, or    *)
(*                  the working set is full                                *)
(*   E.removeWheel  wheel ids given to removeWheel                         *)
(*   E.renames      <<wheel id, raw name>> given to updateWheelName        *)
(*   E.recolors     <<wheel id, raw colour>> given to updateWheelColor     *)
(*   E.adds         <<wheel id, n>>: addSegment is tried on this wheel     *)
(*                  while it has fewer than n segments                     *)
(*   E.removes      <<wheel id, segment id>> given to removeSegment        *)
(*   E.edits        <<wheel id, segment id>> given to updateSegment, with  *)
(*                  each raw name of E.names and raw value of E.values     *)
(*   E.copies       <<from, to>> given to copyConsiderationsToWheel        *)
(***************************************************************************)
User(E) ==
  \/ (nextWheelId < E.maxWheelId \/ Len(wheels) >= MAX_WHEELS) /\ addWheel
  \/ \E w \in E.removeWheel : removeWheel(w)
  \/ \E r \in E.renames : updateWheelName(r[1], r[2])
  \/ \E r \in E.recolors : updateWheelColor(r[1], r[2])
  \/ \E a \in E.adds :
       SegmentCount(wheels, a[1]) < a[2] /\ addSegment(a[1])
  \/ \E r \in E.removes : removeSegment(r[1], r[2])
  \/ \E e \in E.edits, n \in E.names : updateSegment(e[1], e[2], "name", n)
  \/ \E e \in E.edits, v \in E.values : updateSegment(e[1], e[2], "value", v)
  \/ \E c \in E.copies : copyConsiderationsToWheel(c[1], c[2])

\* raw texts typed into a name field
EMPTY_TEXT == <<>>
BRACKETS_TEXT == <<" ", "<", ">", " ">>
LONG_TEXT == Repeat("a", 49) \o <<" ", "b">>
NESTED_TEXT == <<"j","a">> \o JAVASCRIPT_PROTOCOL \o <<"v","a","s","c","r","i","p","t",":">>

RED_HEX == <<"#","F","0","0">>
RED_WORD == <<"r","e","d">>

\* addSegment is tried whatever the number of segments
NoCap == MAX_SEGMENTS + 1

NoCall == [fn |-> "none", arg |-> <<>>, ret |-> <<>>, done |-> FALSE]

Init ==
  /\ InitApp
  /\ call = NoCall

\* --- Spec: the wheels of the working set ---------------------------------
WheelsEnv ==
  [ maxWheelId |-> MaxWheelId,
    removeWheel |-> 0..(MaxWheelId - 1),
    renames |-> {<<2, EMPTY_TEXT>>},
    recolors |-> {<<1, RED_HEX>>},
    adds |-> {<<2, MaxExploredSegments>>},
    removes |-> {<<2, 4>>},
    edits |-> {<<2, 1>>}, names |-> {EMPTY_TEXT}, values |-> {NaN},
    copies |-> {<<1, 2>>} ]

Next == User(WheelsEnv)

Spec == Init /\ [][Next]_vars

\* --- SpecSegments: the segments of a wheel -------------------------------
SegmentsEnv ==
  [ maxWheelId |-> MaxWheelId - 1,
    removeWheel |-> {3},
    renames |-> {<<3, EMPTY_TEXT>>},
    recolors |-> {<<3, COLOR_PALETTE[3]>>},
    adds |-> {<<1, NoCap>>, <<3, MaxExploredSegments - 1>>},
    removes |-> {<<3, 1>>, <<3, 2>>, <<3, 3>>},
    edits |-> {<<3, 1>>}, names |-> {EMPTY_TEXT}, values |-> {NaN},
    copies |-> {<<2, 1>>, <<1, 1>>} ]

NextSegments == User(SegmentsEnv)

SpecSegments == Init /\ [][NextSegments]_vars

\* --- SpecEdit: names and values ------------------------------------------
EditEnv ==
  [ maxWheelId |-> MaxWheelId - 1,
    removeWheel |-> {3},
    renames |-> {<<2, EMPTY_TEXT>>, <<2, LONG_TEXT>>},
    recolors |-> {<<2, RED_WORD>>},
    adds |-> {<<2, MaxExploredSegments>>},
    removes |-> {<<2, 4>>},
    edits |-> {<<1, 1>>},
    names |-> {EMPTY_TEXT, BRACKETS_TEXT, LONG_TEXT, NESTED_TEXT},
    values |-> {Num(-50), Num(150), NaN, Infinity, Str(<<"7">>), Str(<<"a","b","c">>)},
    copies |-> {<<1, 2>>} ]

NextEdit == User(EditEnv)

SpecEdit == Init /\ [][NextEdit]_vars


(***************************************************************************)
(* SpecValidation: one call of a validation function on one raw input.     *)
(* call.fn names the function, call.arg is its argument and, once          *)
(* call.done, call.ret is what it returned.                                *)
(***************************************************************************)
\* the concatenation of a sequence of strings
RECURSIVE Concat(_)
Concat(ss) == IF ss = <<>> THEN <<>> ELSE Head(ss) \o Concat(Tail(ss))

\* every concatenation of at most n strings of the set tokens
TokenStrings(tokens, n) ==
  {Concat(ts) : ts \in UNION {[1..k -> tokens] : k \in 0..n}}

\* pieces of the raw texts given to sanitizeTextInput
TextTokens ==
  { <<"<">>, <<">">>, <<" ">>, <<"a">>, <<"=">>,
    <<"j","a">>, <<"J","a","v","a","S","c","r","i","p","t",":">>,
    <<"v","a","s","c","r","i","p","t",":">>,
    <<"o">>, <<"O","n","x","=">>, <<"n","l","o","a","d","=">> }

\* pieces of the raw names given to validateFileName
FileTokens ==
  { <<"/">>, <<"\\">>, <<":">>, <<"*">>, <<"?">>, <<"\"">>, <<"<">>, <<">">>,
    <<"|">>, <<".">>, <<"e","t","c">>, Repeat("x", 99) }

\* pieces of the strings given to validateValue
NumberTokens ==
  { <<"-">>, <<"1">>, <<"5">>, <<"7">>, <<"a","b","c">>, <<".">>, <<" ">> }

\* raw values given to validateValue
RawValues ==
  {Num(t) : t \in (-MaxTenths)..(100 + MaxTenths)}
    \cup {NaN, Infinity, NegInfinity}
    \cup {Str(s) : s \in TokenStrings(NumberTokens, MaxTokens)}

Call(fn, arg) == [fn |-> fn, arg |-> arg, ret |-> <<>>, done |-> FALSE]

Return(ret) == [call EXCEPT !.ret = ret, !.done = TRUE]

InitValidation ==
  /\ InitApp
  /\ \/ \E t \in TokenStrings(TextTokens, MaxTokens) : call = Call("sanitizeTextInput", t)
     \/ \E t \in TokenStrings(FileTokens, MaxTokens) : call = Call("validateFileName", t)
     \/ \E v \in RawValues : call = Call("validateValue", v)

CallSanitizeTextInput ==
  /\ call.fn = "sanitizeTextInput" /\ ~call.done
  /\ call' = Return(sanitizeTextInput(call.arg))
  /\ UNCHANGED <<appVars, browser>>

CallValidateFileName ==
  /\ call.fn = "validateFileName" /\ ~call.done
  /\ call' = Return(validateFileName(call.arg))
  /\ UNCHANGED <<appVars, browser>>

CallValidateValue ==
  /\ call.fn = "validateValue" /\ ~call.done
  /\ call' = Return(validateValue(call.arg))
  /\ UNCHANGED <<appVars, browser>>

NextValidation ==
  \/ CallSanitizeTextInput
  \/ CallValidateFileName
  \/ CallValidateValue

SpecValidation == InitValidation /\ [][NextValidation]_vars


(***************************************************************************)
(* utils/calculations (src/unnamed/part_001, lines 1-110)                  *)
(*                                                                         *)
(* A number with one decimal (an average read back by parseFloat) is kept  *)
(* as its number of tenths. The quotient sum / length is kept as the pair  *)
(* of its operands; DoubleError gives the sign of the error of the IEEE    *)
(* double that the division produces, which decides how toFixed rounds a   *)
(* quotient that lies exactly between two one-decimal numbers.             *)
(***************************************************************************)
\* wheel.segments.reduce((acc, seg) => acc + seg.value, 0)
RECURSIVE SumValues(_)
SumValues(segments) ==
  IF segments = <<>> THEN 0
  ELSE Head(segments).value + SumValues(Tail(segments))

\* 2^k
RECURSIVE Pow2(_)
Pow2(k) == IF k = 0 THEN 1 ELSE 2 * Pow2(k - 1)

\* the remainder and the last bit after steps more binary digits of r / d
\* have been produced by long division (0 <= r < d)
RECURSIVE LongDivision(_, _, _, _)
LongDivision(r, d, lastBit, steps) ==
  IF steps = 0 THEN [r |-> r, bit |-> lastBit]
  ELSE IF 2 * r >= d THEN LongDivision(2 * r - d, d, 1, steps - 1)
       ELSE LongDivision(2 * r, d, 0, steps - 1)

\* the sign of double(s / n) - s / n for integers s >= 1, n >= 1: the
\* quotient is scaled into [1, 2), 53 significant bits are kept and the
\* rest is rounded to nearest, ties to even
DoubleError(s, n) ==
  LET up == CHOOSE k \in 0..16 : s * Pow2(k) >= n /\ (k = 0 \/ s * Pow2(k - 1) < n)
      a == s * Pow2(up)
      down == CHOOSE k \in 0..16 : a < 2 * n * Pow2(k) /\ (k = 0 \/ a >= 2 * n * Pow2(k - 1))
      d == n * Pow2(down)
      rest == LongDivision(a - d, d, 1, 52)
  IN IF rest.r = 0 THEN 0
     ELSE IF 2 * rest.r > d \/ (2 * rest.r = d /\ rest.bit = 1) THEN 1
     ELSE -1

\* the decimal digits of n >= 0
RECURSIVE IntToString(_)
IntToString(n) ==
  IF n < 10 THEN <<DigitSeq[n + 1]>>
  ELSE IntToString(n \div 10) \o <<DigitSeq[(n % 10) + 1]>>

\* (sum / n).toFixed(1) as a number of tenths, rounding down always
TenthsOfQuotient_Truncate(sum, n) == (10 * sum) \div n

\* (sum / n).toFixed(1) as a number of tenths, for sum >= 0 and n >= 1: the
\* tenths nearest to the double; when the double is exactly in the middle,
\* the larger
TenthsOfQuotient(sum, n) ==
  LET low == (10 * sum) \div n
      rem == (10 * sum) % n
  IN IF 2 * rem < n THEN low
     ELSE IF 2 * rem > n THEN low + 1
     ELSE IF DoubleError(sum, n) >= 0 THEN low + 1
     ELSE low

\* Number.prototype.toFixed(1) of a number of tenths t >= 0
toFixed(t) == IntToString(t \div 10) \o <<".">> \o <<DigitSeq[(t % 10) + 1]>>

\* parseFloat of a string made of digits, a point and digits: the number
\* of tenths it denotes (the strings calculateAverage returns have exactly
\* one digit after the point)
parseFloat(s) ==
  LET point == CHOOSE i \in 1..Len(s) : s[i] = "."
      whole == ParseDigits(SubSeq(s, 1, point - 1), 0)
  IN 10 * whole + DigitValue(s[point + 1])

calculateAverage(wheel) ==
  IF Len(wheel.segments) = 0 THEN <<"0", ".", "0">>
  ELSE toFixed(TenthsOfQuotient(SumValues(wheel.segments), Len(wheel.segments)))

\* the printable ASCII characters in the order of their code units, from
\* the space (32) to the tilde (126); the grave accent (96) cannot be
\* written in a string and its place is held by a name
PrintableAscii ==
  << " ", "!", "\"", "#", "$", "%", "&", "'", "(", ")", "*", "+", ",", "-", ".", "/" >>
  \o DigitSeq
  \o << ":", ";", "<", "=", ">", "?", "@" >>
  \o UpperSeq
  \o << "[", "\\", "]", "^", "_", "grave" >>
  \o LowerSeq
  \o << "{", "|", "}", "~" >>

\* the UTF-16 code unit of a printable ASCII character
CharCode(c) == 31 + (CHOOSE i \in DOMAIN PrintableAscii : PrintableAscii[i] = c)

\* a < b in the order Array.prototype.sort() uses without a comparator:
\* strings compared code unit by code unit, a proper prefix first
RECURSIVE StringLess(_, _)
StringLess(a, b) ==
  IF b = <<>> THEN FALSE
  ELSE IF a = <<>> THEN TRUE
  ELSE IF Head(a) # Head(b) THEN CharCode(Head(a)) < CharCode(Head(b))
  ELSE StringLess(Tail(a), Tail(b))

\* x put into the sorted sequence s, after the elements that are not
\* greater than it
RECURSIVE InsertString(_, _)
InsertString(x, s) ==
  IF s = <<>> THEN <<x>>
  ELSE IF StringLess(x, Head(s)) THEN <<x>> \o s
  ELSE <<Head(s)>> \o InsertString(x, Tail(s))

\* names.sort()
RECURSIVE SortStrings(_)
SortStrings(names) ==
  IF names = <<>> THEN <<>>
  ELSE InsertString(names[Len(names)], SortStrings(SubSeq(names, 1, Len(names) - 1)))

\* s.name.toLowerCase().trim()
NormalizedName(name) == Trim([i \in DOMAIN name |-> toLowerCase(name[i])])

\* wheel.segments.map(s => s.name.toLowerCase().trim())
NormalizedNames(wheel) ==
  [i \in DOMAIN wheel.segments |-> NormalizedName(wheel.segments[i].name)]

\* doConsiderationsMatch that compares the names as they are listed
doConsiderationsMatch_NoSort(ws) ==
  IF Len(ws) = 0 THEN TRUE
  ELSE LET firstConsiderations == NormalizedNames(ws[1])
       IN \A index \in DOMAIN ws :
            \/ index = 1
            \/ LET considerations == NormalizedNames(ws[index])
               IN /\ Len(considerations) = Len(firstConsiderations)
                  /\ \A i \in DOMAIN considerations :
                       considerations[i] = firstConsiderations[i]

\* doConsiderationsMatch that forgets to compare the lengths: a name past
\* the end of firstConsiderations is compared with undefined
doConsiderationsMatch_NoLengthCheck(ws) ==
  IF Len(ws) = 0 THEN TRUE
  ELSE LET firstConsiderations == SortStrings(NormalizedNames(ws[1]))
       IN \A index \in DOMAIN ws :
            \/ index = 1
            \/ LET considerations == SortStrings(NormalizedNames(ws[index]))
               IN \A i \in DOMAIN considerations :
                    /\ i \in DOMAIN firstConsiderations
                    /\ considerations[i] = firstConsiderations[i]

doConsiderationsMatch(ws) ==
  IF Len(ws) = 0 THEN TRUE
  ELSE LET firstConsiderations == SortStrings(NormalizedNames(ws[1]))
       IN \A index \in DOMAIN ws :
            \/ index = 1
            \/ LET considerations == SortStrings(NormalizedNames(ws[index]))
               IN /\ Len(considerations) = Len(firstConsiderations)
                  /\ \A i \in DOMAIN considerations :
                       considerations[i] = firstConsiderations[i]

\* wheels.map(wheel => ({ wheel, avg: parseFloat(calculateAverage(wheel)) }))
Averages(ws) ==
  [i \in DOMAIN ws |-> [wheel |-> ws[i], avg |-> parseFloat(calculateAverage(ws[i]))]]

\* Math.max(...values) of a non-empty list
MathMax(values) ==
  CHOOSE x \in Range(values) : \A y \in Range(values) : y <= x

\* getHighestRatedWheels that stops at the first wheel with the maximum
getHighestRatedWheels_FirstOnly(ws) ==
  IF Len(ws) = 0 THEN <<>>
  ELSE LET averages == Averages(ws)
           maxAvg == MathMax([i \in DOMAIN averages |-> averages[i].avg])
           first == CHOOSE i \in DOMAIN averages :
                      /\ averages[i].avg = maxAvg
                      /\ \A j \in 1..(i - 1) : averages[j].avg # maxAvg
       IN <<averages[first].wheel>>

getHighestRatedWheels(ws) ==
  IF Len(ws) = 0 THEN <<>>
  ELSE LET averages == Averages(ws)
           maxAvg == MathMax([i \in DOMAIN averages |-> averages[i].avg])
           isMax(a) == a.avg = maxAvg
           kept == SelectSeq(averages, isMax)
       IN [i \in DOMAIN kept |-> kept[i].wheel]


(***************************************************************************)
(* ComparisonBars: the winner summary (src/unnamed/part_002, 211-315)      *)
(***************************************************************************)
\* x put into s, which is sorted by descending avg, before the elements
\* whose avg is not greater than its own
RECURSIVE InsertByAvg(_, _)
InsertByAvg(x, s) ==
  IF s = <<>> THEN <<x>>
  ELSE IF Head(s).avg > x.avg THEN <<Head(s)>> \o InsertByAvg(x, Tail(s))
  ELSE <<x>> \o s

\* [...averages].sort((a, b) => b.avg - a.avg): a stable sort
RECURSIVE SortByAvg(_)
SortByAvg(averages) ==
  IF averages = <<>> THEN <<>>
  ELSE InsertByAvg(Head(averages), SortByAvg(Tail(averages)))

\* what the summary section renders
Summary(kind, leader, score, gap, second) ==
  [kind |-> kind, leader |-> leader, score |-> score, gap |-> gap, second |-> second]

\* the summary that takes the last wheel of the ranking as secondHighest
ComparisonSummary_SecondIsLast(ws) ==
  LET sorted == SortByAvg(Averages(ws))
  IN IF Len(sorted) = 0 THEN Summary("error", <<>>, <<>>, <<>>, <<>>)
     ELSE IF Len(sorted) >= 2 /\ sorted[1].avg = sorted[Len(sorted)].avg
          THEN Summary("tie", <<>>, <<>>, <<>>, <<>>)
     ELSE IF Len(sorted) >= 2
          THEN Summary("leader", sorted[1].wheel.name, toFixed(sorted[1].avg),
                       toFixed(sorted[1].avg - sorted[Len(sorted)].avg),
                       sorted[Len(sorted)].wheel.name)
     ELSE Summary("leader", sorted[1].wheel.name, toFixed(sorted[1].avg), <<>>, <<>>)

\* the summary without the tie test
ComparisonSummary_NoTie(ws) ==
  LET sorted == SortByAvg(Averages(ws))
  IN IF Len(sorted) = 0 THEN Summary("error", <<>>, <<>>, <<>>, <<>>)
     ELSE IF Len(sorted) >= 2
          THEN Summary("leader", sorted[1].wheel.name, toFixed(sorted[1].avg),
                       toFixed(sorted[1].avg - sorted[2].avg),
                       sorted[2].wheel.name)
     ELSE Summary("leader", sorted[1].wheel.name, toFixed(sorted[1].avg), <<>>, <<>>)

\* highest = sorted[0], secondHighest = sorted[1]; with no wheel at all,
\* reading highest.avg throws; with one wheel there is no second place
ComparisonSummary(ws) ==
  LET sorted == SortByAvg(Averages(ws))
  IN IF Len(sorted) = 0 THEN Summary("error", <<>>, <<>>, <<>>, <<>>)
     ELSE IF Len(sorted) >= 2 /\ sorted[1].avg = sorted[2].avg
          THEN Summary("tie", <<>>, <<>>, <<>>, <<>>)
     ELSE IF Len(sorted) >= 2
          THEN Summary("leader", sorted[1].wheel.name, toFixed(sorted[1].avg),
                       toFixed(sorted[1].avg - sorted[2].avg),
                       sorted[2].wheel.name)
     ELSE Summary("leader", sorted[1].wheel.name, toFixed(sorted[1].avg), <<>>, <<>>)


(***************************************************************************)
(* SpecCalculations: one call of a calculation on one input.               *)
(***************************************************************************)
\* a wheel with count segments of value a followed by more segments of
\* value b
RunWheel(id, a, count, b, more) ==
  Wheel(id, OPPORTUNITY_ \o <<UpperSeq[id]>>, COLOR_PALETTE[id],
        [i \in 1..(count + more) |->
           Segment(i, FACTOR_ \o IntToString(i), IF i <= count THEN a ELSE b)])

\* the wheels given to calculateAverage: up to 2 * maxRun segments of any
\* one value followed by up to 2 * maxRun segments of the lowest or of the
\* highest value
AverageInputs(maxRun) ==
  {RunWheel(1, a, count, b, more) :
     a \in MIN_VALUE..MAX_VALUE, count \in 0..(2 * maxRun),
     b \in {MIN_VALUE, MAX_VALUE}, more \in 0..(2 * maxRun)}

\* names of considerations that differ in case, in surrounding whitespace
\* or altogether
NameTokens ==
  { <<"C","o","s","t">>, <<" ","c","o","s","t"," ">>, <<"T","i","m","e">> }

\* a wheel whose segments carry these names
NamedWheel(id, names) ==
  Wheel(id, OPPORTUNITY_ \o <<UpperSeq[id]>>, COLOR_PALETTE[id],
        [i \in DOMAIN names |-> Segment(i, names[i], DEFAULT_VALUE)])

\* the lists of at most maxNames of these names
NameLists(maxNames) == UNION {[1..k -> NameTokens] : k \in 0..maxNames}

\* the list of wheels given to doConsiderationsMatch: one wheel for each
\* list of names picked
NamedWheels(pick) == [i \in DOMAIN pick |-> NamedWheel(i, pick[i])]

\* <<c, m>>: a wheel with c segments of value 8 followed by m segments of
\* value 7, each number at most maxTied
RankingShapes(maxTied) == (0..maxTied) \X (0..maxTied)

\* the list of wheels given to getHighestRatedWheels and to
\* ComparisonBars: one wheel for each shape picked
RankedWheels(pick) == [i \in DOMAIN pick |-> RunWheel(i, 8, pick[i][1], 7, pick[i][2])]

InitCalculations ==
  /\ InitApp
  /\ \/ \E w \in AverageInputs(MaxRun) : call = Call("calculateAverage", w)
     \/ \E n \in 0..MAX_WHEELS : \E pick \in [1..n -> NameLists(MaxNames)] :
          call = Call("doConsiderationsMatch", NamedWheels(pick))
     \/ \E n \in 0..MAX_WHEELS : \E pick \in [1..n -> RankingShapes(MaxTied)] :
          call = Call("getHighestRatedWheels", RankedWheels(pick))
     \/ \E n \in 0..MAX_WHEELS : \E pick \in [1..n -> RankingShapes(MaxTied)] :
          call = Call("ComparisonBars", RankedWheels(pick))

CallCalculateAverage ==
  /\ call.fn = "calculateAverage" /\ ~call.done
  /\ call' = Return(calculateAverage(call.arg))
  /\ UNCHANGED <<appVars, browser>>

CallDoConsiderationsMatch ==
  /\ call.fn = "doConsiderationsMatch" /\ ~call.done
  /\ call' = Return(doConsiderationsMatch(call.arg))
  /\ UNCHANGED <<appVars, browser>>

CallGetHighestRatedWheels ==
  /\ call.fn = "getHighestRatedWheels" /\ ~call.done
  /\ call' = Return(getHighestRatedWheels(call.arg))
  /\ UNCHANGED <<appVars, browser>>

RenderComparisonBars ==
  /\ call.fn = "ComparisonBars" /\ ~call.done
  /\ call' = Return(ComparisonSummary(call.arg))
  /\ UNCHANGED <<appVars, browser>>

NextCalculations ==
  \/ CallCalculateAverage
  \/ CallDoConsiderationsMatch
  \/ CallGetHighestRatedWheels
  \/ RenderComparisonBars

SpecCalculations == InitCalculations /\ [][NextCalculations]_vars


(***************************************************************************)
(* utils/exports (src/src/utils/exports.ts)                                *)
(*                                                                         *)
(* Each action is one task of the event loop, run to completion: the body  *)
(* of an export function, an image event handler, the canvas.toBlob        *)
(* callback, the setTimeout callback of triggerDownload. A DOM call that   *)
(* can throw does so or not by a choice of the environment.                *)
(***************************************************************************)
\* Date.now() at the time of every export (the value of the docstrings)
NOW == 1234567890

DECISION_WHEELS == <<"d","e","c","i","s","i","o","n","-","w","h","e","e","l","s","-">>

\* `decision-wheels-${Date.now()}.${extension}`
FileName(extension) == DECISION_WHEELS \o IntToString(NOW) \o <<".">> \o extension

JSON == <<"j","s","o","n">>
SVG == <<"s","v","g">>
WEBP == <<"w","e","b","p">>

\* the steps of triggerDownload that may throw, and "none"
DownloadFailures == {"none", "appendChild", "click"}

\* console.error(label, error)
Logged(b, label) == [b EXCEPT !.console = Append(@, label)]

\* alert(message)
Alerted(b, message) == [b EXCEPT !.alerts = Append(@, message)]

\* an error thrown out of a callback of the event loop
Uncaught(b, message) == [b EXCEPT !.uncaught = Append(@, message)]

\* triggerDownload(blob, filename): the page it leaves and whether it
\* threw. The link and the timer carry the number of the URL. When
\* appendChild or click throws, the catch block logs and throws again;
\* the URL has been created and setTimeout has not been reached.
triggerDownload(b, filename, failure) ==
  LET url == b.nextUrl
      created == [b EXCEPT !.urls = @ \cup {url}, !.nextUrl = @ + 1]
      appended == [created EXCEPT !.links = @ \cup {url}]
  IN IF failure = "appendChild"
     THEN [threw |-> TRUE, browser |-> Logged(created, "Download error:")]
     ELSE IF failure = "click"
     THEN [threw |-> TRUE, browser |-> Logged(appended, "Download error:")]
     ELSE [ threw |-> FALSE,
            browser |-> [appended EXCEPT !.downloads = Append(@, validateFileName(filename)),
                                         !.timers = @ \cup {url}] ]

\* how an export function ended for its caller and the image it left
\* decoding (0: none)
Ended(outcome, img) == [outcome |-> outcome, img |-> img]

Started(b) == [b EXCEPT !.exports = @ + 1]

\* exportToJSON that does not check that there are wheels
exportToJSON_NoCheck(ws) ==
  /\ browser.exports < MaxExports
  /\ \E failure \in DownloadFailures :
       LET r == triggerDownload(Started(browser), FileName(JSON), failure)
       IN browser' = IF r.threw
                     THEN Alerted(Logged(r.browser, "JSON export error:"),
                                  "JSON export failed. Please try again.")
                     ELSE r.browser
  /\ call' = [Call("exportToJSON", ws) EXCEPT !.ret = Ended("returned", 0), !.done = TRUE]
  /\ UNCHANGED appVars

\* exportToJSON(wheels): every throw inside the try block, its own and
\* that of triggerDownload, ends in the catch block, which logs and
\* alerts; the function then returns
exportToJSON(ws) ==
  /\ browser.exports < MaxExports
  /\ \E failure \in DownloadFailures :
       LET b == Started(browser)
           r == triggerDownload(b, FileName(JSON), failure)
       IN browser' = IF Len(ws) = 0 \/ r.threw
                     THEN Alerted(Logged(IF Len(ws) = 0 THEN b ELSE r.browser,
                                         "JSON export error:"),
                                  "JSON export failed. Please try again.")
                     ELSE r.browser
  /\ call' = [Call("exportToJSON", ws) EXCEPT !.ret = Ended("returned", 0), !.done = TRUE]
  /\ UNCHANGED appVars

\* exportToSVG(wheels)
exportToSVG(ws) ==
  /\ browser.exports < MaxExports
  /\ \E failure \in DownloadFailures :
       LET b == Started(browser)
           r == triggerDownload(b, FileName(SVG), failure)
           failed(page, message) ==
             Alerted(Logged(page, "SVG export error:"), "SVG export failed: " \o message)
       IN browser' =
            IF b.container = "missing" THEN failed(b, "Cannot find wheels to export")
            ELSE IF b.container = "empty" THEN failed(b, "No wheels found to export")
            ELSE IF r.threw THEN failed(r.browser, "Failed to trigger download")
            ELSE r.browser
  /\ call' = [Call("exportToSVG", ws) EXCEPT !.ret = Ended("returned", 0), !.done = TRUE]
  /\ UNCHANGED appVars

\* exportToWebP(_wheels): an async function without await. Every throw of
\* its body is caught; it returns after img.src = url, and the promise it
\* returned is fulfilled then. The image carries the number of its URL.
exportToWebP(ws) ==
  /\ browser.exports < MaxExports
  /\ \E context \in BOOLEAN :
       LET b == Started(browser)
           url == b.nextUrl
           failed == Alerted(Logged(b, "WebP export error:"),
                             "WebP export failed. Please use SVG export instead.")
       IN IF b.container # "wheels" \/ ~context
          THEN /\ browser' = failed
               /\ call' = [Call("exportToWebP", ws) EXCEPT
                             !.ret = Ended("fulfilled", 0), !.done = TRUE]
          ELSE /\ browser' = [b EXCEPT !.urls = @ \cup {url}, !.nextUrl = @ + 1,
                                       !.loading = @ \cup {url}]
               /\ call' = [Call("exportToWebP", ws) EXCEPT
                             !.ret = Ended("fulfilled", url), !.done = TRUE]
  /\ UNCHANGED appVars

\* img.onload: the image is drawn, its URL is revoked, canvas.toBlob is
\* called and will call back
imgOnload(img) ==
  /\ img \in browser.loading
  /\ browser' = [browser EXCEPT !.loading = @ \ {img}, !.urls = @ \ {img},
                                !.blobs = @ \cup {img}]
  /\ UNCHANGED <<appVars, call>>

\* img.onerror: the URL is revoked and an Error is thrown out of the
\* handler
imgOnerror(img) ==
  /\ img \in browser.loading
  /\ browser' = Uncaught([browser EXCEPT !.loading = @ \ {img}, !.urls = @ \ {img}],
                         "Image load failed")
  /\ UNCHANGED <<appVars, call>>

\* the callback given to canvas.toBlob
toBlobCallback(img) ==
  /\ img \in browser.blobs
  /\ \E blob \in BOOLEAN, failure \in DownloadFailures :
       LET b == [browser EXCEPT !.blobs = @ \ {img}]
           r == triggerDownload(b, FileName(WEBP), failure)
       IN browser' = IF ~blob THEN Uncaught(b, "Failed to create WebP blob")
                     ELSE IF r.threw THEN Uncaught(r.browser, "Failed to trigger download")
                     ELSE r.browser
  /\ UNCHANGED <<appVars, call>>

\* the callback triggerDownload gave to setTimeout: when removeChild
\* throws, revokeObjectURL is not reached
cleanup(url) ==
  /\ url \in browser.timers
  /\ \E removed \in BOOLEAN :
       LET b == [browser EXCEPT !.timers = @ \ {url}]
       IN browser' = IF removed
                     THEN [b EXCEPT !.links = @ \ {url}, !.urls = @ \ {url}]
                     ELSE Uncaught(b, "NotFoundError")
  /\ UNCHANGED <<appVars, call>>


(***************************************************************************)
(* SpecExport: up to MaxExports exports in one session of the page, with   *)
(* their callbacks. SpecExportFair adds that the event loop runs every     *)
(* callback that is pending and that an image being decoded ends with one  *)
(* of its two events.                                                      *)
(***************************************************************************)
\* the states of the '.wheels-container' element
Containers == {"missing", "empty", "wheels"}

InitExport ==
  /\ wheels = InitialWheels
  /\ nextWheelId = 3
  /\ selectedSegment = Null
  /\ lastOp = Op("init", 0, 0, 0)
  /\ call = NoCall
  /\ \E container \in Containers : browser = Page(container)

\* the numbers of the object URLs a session can create
Urls == 1..(2 * MaxExports)

ImageEvent == \E img \in Urls : imgOnload(img) \/ imgOnerror(img)

BlobReady == \E img \in Urls : toBlobCallback(img)

Timeout == \E url \in Urls : cleanup(url)

NextExport ==
  \/ \E ws \in {<<>>, wheels} : exportToJSON(ws)
  \/ exportToSVG(wheels)
  \/ exportToWebP(wheels)
  \/ ImageEvent
  \/ BlobReady
  \/ Timeout

SpecExport == InitExport /\ [][NextExport]_vars

SpecExportFair ==
  /\ SpecExport
  /\ WF_vars(ImageEvent)
  /\ WF_vars(BlobReady)
  /\ WF_vars(Timeout)


(***************************************************************************)
(* components/CircleWheel (src/unnamed/part_002, 33-178)                   *)
(*                                                                         *)
(* Angles are kept as fractions of a full turn (2 * Math.PI), measured     *)
(* the way the code measures them: from 3 o'clock, clockwise on the        *)
(* screen. A point is kept as its distance from the centre of the wheel    *)
(* and its angle, standing for                                             *)
(*   (CENTER_X + r * Math.cos(angle), CENTER_Y + r * Math.sin(angle)).     *)
(* The rounding of the double arithmetic is not modelled.                  *)
(***************************************************************************)
RADIUS == 140
CENTER_X == 220
CENTER_Y == 220
LABEL_DISTANCE == RADIUS + 30

\* n / d of a full turn
Turn(n, d) == [n |-> n, d |-> d]

\* a - b
AngleMinus(a, b) == Turn(a.n * b.d - b.n * a.d, a.d * b.d)

\* a = b as numbers
SameAngle(a, b) == a.n * b.d = b.n * a.d

\* a and b differ by whole turns: cos and sin are the same for both
SameDirection(a, b) == (a.n * b.d - b.n * a.d) % (a.d * b.d) = 0

\* the point at this distance from the centre in this direction
Polar(r, angle) == [r |-> r, angle |-> angle]

\* p and q are the same point of the plane
SamePoint(p, q) == p.r = q.r /\ (p.r = 0 \/ SameDirection(p.angle, q.angle))

\* index * anglePerSegment - Math.PI / 2, with anglePerSegment =
\* (2 * Math.PI) / segmentCount
startAngle(index, segmentCount) == Turn(4 * index - segmentCount, 4 * segmentCount)

\* (index + 1) * anglePerSegment - Math.PI / 2
endAngle(index, segmentCount) == Turn(4 * (index + 1) - segmentCount, 4 * segmentCount)

\* the commands of a path: M x y, L x y, A rx ry rotation large-arc sweep
\* x y, Z
MoveTo(x, y) == [cmd |-> "M", x |-> x, y |-> y]
LineTo(p) == [cmd |-> "L", to |-> p]
ArcTo(r, largeArc, sweep, p) ==
  [cmd |-> "A", rx |-> r, ry |-> r, rotation |-> 0, largeArc |-> largeArc,
   sweep |-> sweep, to |-> p]
ClosePath == [cmd |-> "Z"]

\* createSegmentPath that returns the pie slice whatever the fill
createSegmentPath_AlwaysDrawn(index, fillTenths, segmentCount) ==
  LET outerRadius == (RADIUS * fillTenths) \div 10
  IN << MoveTo(CENTER_X, CENTER_Y),
        LineTo(Polar(outerRadius, startAngle(index, segmentCount))),
        ArcTo(outerRadius, 0, 1, Polar(outerRadius, endAngle(index, segmentCount))),
        ClosePath >>

\* createSegmentPath(index, fillPercentage) of a wheel of segmentCount
\* segments, with fillPercentage = fillTenths / 10: the path as the list
\* of its commands, the empty string as the empty list
createSegmentPath(index, fillTenths, segmentCount) ==
  LET outerRadius == (RADIUS * fillTenths) \div 10
  IN IF fillTenths > 0
     THEN << MoveTo(CENTER_X, CENTER_Y),
             LineTo(Polar(outerRadius, startAngle(index, segmentCount))),
             ArcTo(outerRadius, 0, 1, Polar(outerRadius, endAngle(index, segmentCount))),
             ClosePath >>
     ELSE <<>>

\* getLabelPosition(index): (index + 0.5) * anglePerSegment - Math.PI / 2
\* at LABEL_DISTANCE
getLabelPosition(index, segmentCount) ==
  Polar(LABEL_DISTANCE, Turn(4 * (2 * index + 1) - 2 * segmentCount, 8 * segmentCount))

\* the <g> element rendered for the segment at this index (from 0):
\* the outline path, the filled path, the dividing line from the centre,
\* the two labels and whether the selection ring is drawn
SegmentGroup(wheel, index, selectedSegmentId) ==
  LET segment == wheel.segments[index + 1]
      segmentCount == Len(wheel.segments)
  IN [ key |-> segment.id,
       outline |-> createSegmentPath(index, 10, segmentCount),
       filled |-> createSegmentPath(index, segment.value, segmentCount),
       divider |-> Polar(RADIUS, startAngle(index, segmentCount)),
       label |-> getLabelPosition(index, segmentCount),
       name |-> segment.name,
       value |-> segment.value,
       isSelected |-> (selectedSegmentId = segment.id) ]

\* the <svg> element CircleWheel renders: one group per segment, in the
\* order of the segments (selectedSegmentId 0: null)
CircleWheel(wheel, selectedSegmentId) ==
  [ width |-> 440, height |-> 440,
    groups |-> [i \in DOMAIN wheel.segments |->
                  SegmentGroup(wheel, i - 1, selectedSegmentId)] ]

(***************************************************************************)
(* SpecGeometry: one wheel rendered by CircleWheel.                        *)
(***************************************************************************)
\* the wheels rendered: up to maxRun segments of any one value followed by
\* up to maxRun segments of the lowest or of the highest value
GeometryInputs(maxRun) ==
  {RunWheel(1, a, count, b, more) :
     a \in MIN_VALUE..MAX_VALUE, count \in 0..maxRun,
     b \in {MIN_VALUE, MAX_VALUE}, more \in 0..maxRun}

InitGeometry ==
  /\ InitApp
  /\ \E w \in GeometryInputs(MaxRun) : call = Call("CircleWheel", w)

RenderCircleWheel ==
  /\ call.fn = "CircleWheel" /\ ~call.done
  /\ call' = Return(CircleWheel(call.arg, 0))
  /\ UNCHANGED <<appVars, browser>>

NextGeometry == RenderCircleWheel

SpecGeometry == InitGeometry /\ [][NextGeometry]_vars


(***************************************************************************)
(* utils/exports: the documents the exports build                          *)
(* (src/src/utils/exports.ts, 102-150 and 185-206)                         *)
(*                                                                         *)
(* A document is kept as the elements written into its string. Lengths     *)
(* that the code computes by a division are kept as fractions; the         *)
(* rounding of the double arithmetic is not modelled.                      *)
(***************************************************************************)
svgWidth == 440
\* gap
wheelGap == 40
padding == 40
wheelsHeight == 480
comparisonHeight == 200
comparisonPadding == 40
barHeight == 40
barGap == 20

\* the number n / d; 0 / 0 stands for NaN
Frac(n, d) == [n |-> n, d |-> d]

\* (svgWidth * svgs.length) + (gap * (svgs.length - 1)) + (padding * 2)
wheelsWidth(count) == (svgWidth * count) + (wheelGap * (count - 1)) + (padding * 2)

totalHeight == wheelsHeight + comparisonHeight + comparisonPadding

\* xOffset without the gap between the wheels
xOffset_NoGap(index) == padding + (index * svgWidth)

\* padding + (index * (svgWidth + gap))
xOffset(index) == padding + (index * (svgWidth + wheelGap))

\* the <g transform="translate(xOffset, padding)"> elements: each holds
\* the content of one <svg> of the container, without the <svg> tags
WheelGroups(svgs) ==
  [i \in DOMAIN svgs |-> [x |-> xOffset(i - 1), y |-> padding, content |-> svgs[i].groups]]

comparisonY == wheelsHeight + comparisonPadding

barWidth(count) == wheelsWidth(count) - (padding * 2)

\* comparisonY + 40 + (index * (barHeight + barGap))
barY(index) == comparisonY + 40 + (index * (barHeight + barGap))

\* the elements written for the wheel at this index (from 0): its name,
\* its average to one decimal, the background bar, the filled bar, and the
\* percentage when the filled bar is wider than 60. avg is the sum of the
\* values over their number, percentage is (avg / 10) * 100 and fillWidth
\* is (barWidth * percentage) / 100.
ComparisonBar(wheel, index, count) ==
  LET sum == SumValues(wheel.segments)
      n == Len(wheel.segments)
      fillWidth == Frac(barWidth(count) * sum, 10 * n)
  IN [ name |-> wheel.name,
       nameY |-> barY(index) + 15,
       score |-> IF n = 0 THEN <<"N", "a", "N">> ELSE toFixed(TenthsOfQuotient(sum, n)),
       track |-> [x |-> padding, y |-> barY(index) + 20,
                  width |-> barWidth(count), height |-> barHeight],
       fill |-> [x |-> padding, y |-> barY(index) + 20,
                 width |-> fillWidth, height |-> barHeight, color |-> wheel.color],
       percentShown |-> (n > 0 /\ fillWidth.n > 60 * fillWidth.d) ]

\* the document exportToSVG builds from the <svg> elements of the
\* container and from the wheels: the XML declaration, the root element,
\* the white background, the wheels, the title of the comparison and one
\* bar per wheel
combinedSVG(ws, svgs) ==
  LET count == Len(svgs)
  IN [ declaration |-> TRUE,
       width |-> wheelsWidth(count), height |-> totalHeight,
       background |-> [width |-> wheelsWidth(count), height |-> totalHeight],
       wheels |-> WheelGroups(svgs),
       title |-> << [x |-> Frac(wheelsWidth(count), 2), y |-> comparisonY] >>,
       bars |-> [i \in DOMAIN ws |-> ComparisonBar(ws[i], i - 1, count)] ]

\* the document exportToWebP builds from the <svg> elements of the
\* container: the root element, the white background and the wheels
svgString(svgs) ==
  LET count == Len(svgs)
  IN [ declaration |-> FALSE,
       width |-> wheelsWidth(count), height |-> totalHeight,
       background |-> [width |-> wheelsWidth(count), height |-> totalHeight],
       wheels |-> WheelGroups(svgs),
       title |-> <<>>,
       bars |-> <<>> ]

\* calculatePercentage(wheel): (avg / 10) * 100, with avg the average
\* already rounded to one decimal
calculatePercentage(wheel) == Frac(parseFloat(calculateAverage(wheel)) * 100, 10 * 10)

(***************************************************************************)
(* SpecDocument: the document of one export of one working set.            *)
(***************************************************************************)
\* the <svg> elements of the '.wheels-container': App renders one
\* CircleWheel per wheel into it, without selection
ContainerSvgs(ws) == [i \in DOMAIN ws |-> CircleWheel(ws[i], 0)]

\* <<a, c, m>>: a wheel with c segments of value a, which is 0, 7 or 10,
\* followed by m segments of value 8, with c from 1 to maxTied and m at
\* most 1
DocumentShapes(maxTied) == {0, 7, 10} \X (1..maxTied) \X (0..1)

\* the working set exported: one wheel for each shape picked
ExportedWheels(pick) ==
  [i \in DOMAIN pick |-> RunWheel(i, pick[i][1], pick[i][2], 8, pick[i][3])]

InitDocument ==
  /\ InitApp
  /\ \E n \in 1..MAX_WHEELS : \E pick \in [1..n -> DocumentShapes(MaxTied)] :
       \/ call = Call("exportToSVG", ExportedWheels(pick))
       \/ call = Call("exportToWebP", ExportedWheels(pick))

BuildCombinedSVG ==
  /\ call.fn = "exportToSVG" /\ ~call.done
  /\ call' = Return(combinedSVG(call.arg, ContainerSvgs(call.arg)))
  /\ UNCHANGED <<appVars, browser>>

BuildSvgString ==
  /\ call.fn = "exportToWebP" /\ ~call.done
  /\ call' = Return(svgString(ContainerSvgs(call.arg)))
  /\ UNCHANGED <<appVars, browser>>

NextDocument ==
  \/ BuildCombinedSVG
  \/ BuildSvgString

SpecDocument == InitDocument /\ [][NextDocument]_vars


(***************************************************************************)
(* SpecFrame: the handlers called with ids that exist and with ids that    *)
(* do not. SpecSelection: the handlers together with the clicks on the     *)
(* segments of a wheel.                                                    *)
(***************************************************************************)
\* a wheel id and a segment id that nothing carries
NO_WHEEL == 9
NO_SEGMENT == 9

FrameEnv ==
  [ maxWheelId |-> MaxWheelId - 1,
    removeWheel |-> {1, NO_WHEEL},
    renames |-> {<<2, EMPTY_TEXT>>, <<NO_WHEEL, EMPTY_TEXT>>},
    recolors |-> {<<2, RED_HEX>>, <<NO_WHEEL, RED_HEX>>},
    adds |-> {<<2, MaxExploredSegments>>, <<NO_WHEEL, NoCap>>},
    removes |-> {<<2, 4>>, <<2, NO_SEGMENT>>, <<NO_WHEEL, 1>>},
    edits |-> {<<2, 4>>, <<2, NO_SEGMENT>>, <<NO_WHEEL, 1>>},
    names |-> {EMPTY_TEXT}, values |-> {Num(30)},
    copies |-> {<<1, 2>>, <<NO_WHEEL, 2>>, <<1, NO_WHEEL>>} ]

NextFrame == User(FrameEnv)

SpecFrame == Init /\ [][NextFrame]_vars

\* <<wheel id, segment id>> of the segments the wheel cards show: each is
\* a <g> of a CircleWheel with onClick = handleSegmentClick
RenderedSegments(ws) ==
  UNION { {<<ws[i].id, ws[i].segments[j].id>> : j \in DOMAIN ws[i].segments} :
          i \in DOMAIN ws }

\* the clicks explored are those on the segments of the second wheel
Click ==
  \E p \in RenderedSegments(wheels) : p[1] = 2 /\ handleSegmentClick(p[1], p[2])

SelectionEnv ==
  [ maxWheelId |-> MaxWheelId - 1,
    removeWheel |-> {2},
    renames |-> {<<1, EMPTY_TEXT>>},
    recolors |-> {<<1, RED_HEX>>},
    adds |-> {<<2, MaxExploredSegments>>},
    removes |-> {<<2, 4>>},
    edits |-> {<<2, 4>>}, names |-> {EMPTY_TEXT}, values |-> {Num(30)},
    copies |-> {<<1, 2>>} ]

NextSelection ==
  \/ User(SelectionEnv)
  \/ Click

SpecSelection == Init /\ [][NextSelection]_vars


(***************************************************************************)
(* Properties                                                              *)
(***************************************************************************)
AllSegments == UNION {Range(wheels[i].segments) : i \in DOMAIN wheels}

\* C1: the working set always holds at least 2 and at most 3 wheels, and
\* addWheel called at 3 wheels, like removeWheel called at 2 wheels,
\* changes nothing.
C1_WheelCountBetween2And3 ==
  /\ [](Len(wheels) \in MIN_WHEELS..MAX_WHEELS)
  /\ [][ /\ (lastOp'.op = "addWheel" /\ Len(wheels) = MAX_WHEELS)
              => UNCHANGED <<wheels, nextWheelId, selectedSegment>>
         /\ (lastOp'.op = "removeWheel" /\ Len(wheels) = MIN_WHEELS)
              => UNCHANGED <<wheels, nextWheelId, selectedSegment>> ]_vars

\* addWheel has just been called on a working set that already had 3
\* wheels, after a wheel was removed and another one added
C1_Witness ==
  /\ lastOp.op = "addWheel"
  /\ lastOp.n = MAX_WHEELS
  /\ Len(wheels) = MAX_WHEELS
  /\ nextWheelId > 4

\* C2: every wheel always has between 1 and 20 segments (also after
\* copyConsiderationsToWheel); removeSegment on a wheel with exactly 1
\* segment and addSegment on a wheel with 20 segments leave the wheels as
\* they were.
C2_SegmentCountBetween1And20 ==
  /\ [](\A i \in DOMAIN wheels :
          Len(wheels[i].segments) \in MIN_SEGMENTS..MAX_SEGMENTS)
  /\ [][ /\ ( /\ lastOp'.op = "removeSegment"
              /\ SegmentCount(wheels, lastOp'.a) = MIN_SEGMENTS )
              => wheels' = wheels
         /\ ( /\ lastOp'.op = "addSegment"
              /\ SegmentCount(wheels, lastOp'.a) = MAX_SEGMENTS )
              => wheels' = wheels ]_vars

\* removeSegment has just been called with the id of the only segment of a
\* wheel, while another wheel is full
C2_Witness ==
  /\ lastOp.op = "removeSegment"
  /\ lastOp.n = MIN_SEGMENTS
  /\ HasWheel(wheels, lastOp.a)
  /\ FindWheel(wheels, lastOp.a).segments[1].id = lastOp.b
  /\ \E i \in DOMAIN wheels : Len(wheels[i].segments) = MAX_SEGMENTS

\* C3: every segment value is an integer between 0 and 10, whatever raw
\* value was handed to updateSegment.
C3_ValuesBetween0And10 ==
  \A s \in AllSegments : s.value \in MIN_VALUE..MAX_VALUE

\* updateSegment has just stored 0 for a raw value of -5, in a segment
\* whose sample value was 10
C3_Witness ==
  /\ lastOp.op = "updateSegmentValue"
  /\ HasWheel(wheels, 1)
  /\ FindWheel(wheels, 1).segments[1].value = 0

C5_WheelIdsDistinctBelowNext ==
  /\ \A i, j \in DOMAIN wheels : wheels[i].id = wheels[j].id => i = j
  /\ \A i \in DOMAIN wheels : wheels[i].id < nextWheelId

\* a wheel was added after wheel 3 had been removed: it did not get id 3
C5_Witness ==
  /\ lastOp.op = "addWheel"
  /\ Len(wheels) = MAX_WHEELS
  /\ ~HasWheel(wheels, 3)
  /\ HasWheel(wheels, 4)

\* C6: the ids of the segments of one wheel are pairwise distinct.
C6_SegmentIdsDistinct ==
  \A w \in DOMAIN wheels :
    \A i, j \in DOMAIN wheels[w].segments :
      wheels[w].segments[i].id = wheels[w].segments[j].id => i = j

\* addSegment has just numbered a segment on a wheel that had lost a
\* segment other than its last: the new id is not the number of segments
C6_Witness ==
  /\ lastOp.op = "addSegment"
  /\ HasWheel(wheels, lastOp.a)
  /\ LET segs == FindWheel(wheels, lastOp.a).segments
     IN /\ Len(segs) = lastOp.n + 1
        /\ segs[Len(segs)].id > Len(segs)

\* C7: after copyConsiderationsToWheel(from, to) on two different wheels,
\* the target has as many segments as the source, with the same names in
\* the same order, and all its values are 5.
C7_CopyKeepsNames ==
  ( /\ lastOp.op = "copyConsiderationsToWheel"
    /\ lastOp.a # lastOp.b
    /\ HasWheel(wheels, lastOp.a)
    /\ HasWheel(wheels, lastOp.b) )
  => LET source == FindWheel(wheels, lastOp.a).segments
         target == FindWheel(wheels, lastOp.b).segments
     IN /\ Len(target) = Len(source)
        /\ \A i \in DOMAIN target :
             /\ i \in DOMAIN source
             /\ target[i].name = source[i].name
             /\ target[i].value = 5

\* does the string s contain the literal pat (ci: in any letter case)
Contains(s, pat, ci) == \E i \in 1..Len(s) : LiteralAt(s, i, pat, ci)

\* does s contain "on", one or more word characters and "=", in any case
ContainsEventHandler(s) ==
  \E i, j \in 1..Len(s) :
    /\ j >= i + 3
    /\ toLowerCase(s[i]) = "o"
    /\ toLowerCase(s[i + 1]) = "n"
    /\ \A k \in (i + 2)..(j - 1) : IsWordChar(s[k])
    /\ s[j] = "="

\* C8: the result of sanitizeTextInput contains no '<' or '>', no
\* 'javascript:' in any letter case and no 'on' + word characters + '=' in
\* any letter case.
C8_SanitizedTextIsClean ==
  (call.fn = "sanitizeTextInput" /\ call.done)
  => /\ \A i \in DOMAIN call.ret : call.ret[i] \notin {"<", ">"}
     /\ ~Contains(call.ret, JAVASCRIPT_PROTOCOL, TRUE)
     /\ ~ContainsEventHandler(call.ret)

\* C9: the result of validateFileName contains none of / \ : * ? " < > |,
\* contains no '..' and is at most 100 characters long.
C9_FileNameIsSafe ==
  (call.fn = "validateFileName" /\ call.done)
  => /\ \A i \in DOMAIN call.ret : call.ret[i] \notin RESERVED_FILE_CHARS
     /\ \A i \in 1..(Len(call.ret) - 1) : ~(call.ret[i] = "." /\ call.ret[i + 1] = ".")
     /\ Len(call.ret) <= MAX_FILE_NAME_LENGTH

\* validateFileName has returned 100 characters for a longer name made of
\* a dot, a path separator, a dot and two long runs of letters
C9_Witness ==
  /\ call.fn = "validateFileName"
  /\ call.done
  /\ Len(call.arg) > MAX_FILE_NAME_LENGTH
  /\ \E i \in 1..(Len(call.arg) - 1) : call.arg[i] \in {".", "/"} /\ call.arg[i + 1] = "."
  /\ Len(call.ret) = MAX_FILE_NAME_LENGTH

\* the decimal numeral of n, for 0 <= n <= 99
Numeral(n) ==
  IF n < 10 THEN <<DigitSeq[n + 1]>>
  ELSE <<DigitSeq[(n \div 10) + 1], DigitSeq[(n % 10) + 1]>>

\* n clamped to [0, 10]
Clamped(n) == IF n < 0 THEN 0 ELSE IF n > 10 THEN 10 ELSE n

\* C10: validateValue returns 5 for NaN, for a non-finite number and for a
\* string that does not start with an integer; for a finite number it
\* returns the nearest integer clamped to [0, 10]; for the numeral of an
\* integer, that integer clamped to [0, 10]. validateValue(-5) = 0,
\* validateValue(15) = 10, validateValue('abc') = 5, validateValue(NaN) = 5.
C10_ValidateValueRoundsAndClamps ==
  (call.fn = "validateValue" /\ call.done)
  => LET x == call.arg
         r == call.ret
     IN /\ x.k \in {"nan", "inf"} => r = 5
        /\ x.k = "num" =>
             \E n \in -20..30 :
               /\ 10 * n - 5 <= x.t
               /\ x.t <= 10 * n + 5
               /\ r = Clamped(n)
        /\ x.k = "str" =>
             /\ \A n \in 0..99 :
                  /\ x.s = Numeral(n) => r = Clamped(n)
                  /\ x.s = <<"-">> \o Numeral(n) => r = 0
             /\ (x.s = <<>> \/ (x.s # <<>> /\ ~IsDigit(x.s[1]) /\ x.s[1] \notin {"-", "+", " "}))
                  => r = 5
        /\ x = Num(-50) => r = 0
        /\ x = Num(150) => r = 10
        /\ x = Str(<<"a","b","c">>) => r = 5
        /\ x = NaN => r = 5

\* validateValue has returned 10 for the string '15'
C10_Witness ==
  /\ call.fn = "validateValue"
  /\ call.done
  /\ call.arg = Str(<<"1","5">>)
  /\ call.ret = 10

\* the absolute value of an integer
Abs(n) == IF n < 0 THEN -n ELSE n

\* C11: for a wheel with n >= 1 segments, calculateAverage returns a string
\* with exactly one digit after the point that denotes a one-decimal number
\* nearest to sum(values)/n (when the quotient lies exactly between two
\* one-decimal numbers, one of the two); for a wheel with no segments it
\* returns '0.0'.
C11_AverageIsRoundedQuotient ==
  (call.fn = "calculateAverage" /\ call.done)
  => LET n == Len(call.arg.segments)
         sum == SumValues(call.arg.segments)
     IN IF n = 0 THEN call.ret = <<"0", ".", "0">>
        ELSE \E t \in (10 * MIN_VALUE)..(10 * MAX_VALUE) :
               /\ call.ret = Numeral(t \div 10) \o <<".">> \o Numeral(t % 10)
               /\ 2 * Abs(10 * sum - n * t) <= n

\* calculateAverage has returned '0.1' for twenty segments whose values
\* add up to 3 (the quotient 0.15 lies between 0.1 and 0.2)
C11_Witness ==
  /\ call.fn = "calculateAverage"
  /\ call.done
  /\ Len(call.arg.segments) = 20
  /\ SumValues(call.arg.segments) = 3
  /\ call.ret = <<"0", ".", "1">>

\* how many segments of the wheel have this name once it is lower-cased
\* and trimmed
NameCount(wheel, name) ==
  Cardinality({i \in DOMAIN wheel.segments :
                 NormalizedName(wheel.segments[i].name) = name})

\* the two wheels have the same multiset of lower-cased, trimmed names
SameNameMultiset(a, b) ==
  /\ Len(a.segments) = Len(b.segments)
  /\ \A name \in Range(NormalizedNames(a)) \cup Range(NormalizedNames(b)) :
       NameCount(a, name) = NameCount(b, name)

Reordered(a, b) ==
  /\ Len(a) = Len(b)
  /\ \E p \in [DOMAIN a -> DOMAIN a] :
       /\ \A i, j \in DOMAIN a : p[i] = p[j] => i = j
       /\ \A i \in DOMAIN a : b[i] = a[p[i]]

AverageTenths(wheel) == parseFloat(calculateAverage(wheel))

\* C14: getHighestRatedWheels returns exactly the wheels whose one-decimal
\* average is the maximum of the list, in the order of the list (all of
\* them on a tie), and the empty list for the empty list.
C14_HighestRatedAreAllAtMaximum ==
  (call.fn = "getHighestRatedWheels" /\ call.done)
  => LET isTop(w) == \A i \in DOMAIN call.arg :
                       AverageTenths(call.arg[i]) <= AverageTenths(w)
     IN /\ call.ret = SelectSeq(call.arg, isTop)
        /\ call.arg = <<>> => call.ret = <<>>
        /\ call.arg # <<>> => call.ret # <<>>

\* getHighestRatedWheels has returned all three wheels of a list of three
\* wheels with different numbers of segments and the same average
C14_Witness ==
  /\ call.fn = "getHighestRatedWheels"
  /\ call.done
  /\ Len(call.arg) = 3
  /\ call.ret = call.arg
  /\ Len(call.arg[1].segments) # Len(call.arg[2].segments)
  /\ Len(call.arg[2].segments) # Len(call.arg[3].segments)

\* a one-decimal number of tenths written with one digit after the point
OneDecimal(t) == Numeral(t \div 10) \o <<".">> \o Numeral(t % 10)

\* C15: for 2 or 3 wheels the summary of ComparisonBars is a tie when the
\* two highest one-decimal averages are equal; otherwise it names the wheel
\* with the strictly highest average and the gap, to one decimal, to the
\* second-highest average. A at 7.6 and B at 7.0: A ahead by 0.6; two
\* wheels at 8.0: a tie.
C15_SummaryIsTieOrLeaderWithGap ==
  (call.fn = "ComparisonBars" /\ call.done /\ Len(call.arg) \in MIN_WHEELS..MAX_WHEELS)
  => LET ws == call.arg
         top == CHOOSE i \in DOMAIN ws :
                  \A j \in DOMAIN ws : AverageTenths(ws[j]) <= AverageTenths(ws[i])
         next == CHOOSE i \in DOMAIN ws \ {top} :
                   \A j \in DOMAIN ws \ {top} : AverageTenths(ws[j]) <= AverageTenths(ws[i])
         gap == AverageTenths(ws[top]) - AverageTenths(ws[next])
     IN /\ gap = 0 => call.ret.kind = "tie"
        /\ gap > 0 => /\ call.ret.kind = "leader"
                       /\ call.ret.leader = ws[top].name
                       /\ call.ret.gap = OneDecimal(gap)
        /\ ws = <<RunWheel(1, 8, 3, 7, 2), RunWheel(2, 8, 0, 7, 1)>>
             => /\ call.ret.leader = OPPORTUNITY_ \o <<"A">>
                /\ call.ret.gap = <<"0", ".", "6">>
        /\ ws = <<RunWheel(1, 8, 1, 7, 0), RunWheel(2, 8, 2, 7, 0)>>
             => call.ret.kind = "tie"

\* ComparisonBars has rendered B ahead by 0.6 for A at 7.0, B at 7.6 and a
\* third wheel at 7.0
C15_Witness ==
  /\ call.fn = "ComparisonBars"
  /\ call.done
  /\ Len(call.arg) = 3
  /\ calculateAverage(call.arg[1]) = <<"7", ".", "0">>
  /\ calculateAverage(call.arg[2]) = <<"7", ".", "6">>
  /\ calculateAverage(call.arg[3]) = <<"7", ".", "0">>
  /\ call.ret.kind = "leader"
  /\ call.ret.leader = OPPORTUNITY_ \o <<"B">>
  /\ call.ret.gap = <<"0", ".", "6">>

\* this step is a call of exportToJSON with no wheel, or a call of
\* exportToSVG while the container is missing or holds no svg
FailedPrecondition ==
  /\ browser'.exports = browser.exports + 1
  /\ \/ call'.fn = "exportToJSON" /\ call'.arg = <<>>
     \/ call'.fn = "exportToSVG" /\ browser.container \in {"missing", "empty"}

\* C16: an export whose precondition fails (exportToJSON with zero wheels,
\* exportToSVG without the container or without an svg in it) downloads
\* nothing, does not reach triggerDownload (no object URL, no link and no
\* timer is created) and leaves the wheels as they were.
C16_FailedPreconditionHasNoEffect ==
  [][ FailedPrecondition
        => /\ browser'.downloads = browser.downloads
           /\ browser'.nextUrl = browser.nextUrl
           /\ browser'.urls = browser.urls
           /\ browser'.links = browser.links
           /\ browser'.timers = browser.timers
           /\ wheels' = wheels ]_vars

\* exportToJSON has been called with no wheel after an export that
\* downloaded a file: there is still one download, and an alert
C16_Witness ==
  /\ call.fn = "exportToJSON"
  /\ call.arg = <<>>
  /\ call.done
  /\ browser.exports = 2
  /\ Len(browser.downloads) = 1
  /\ Len(browser.alerts) = 1

\* C17: exportToJSON called with zero wheels, and exportToSVG called when
\* the container cannot be found, end by throwing an Error to their caller.
C17_FailedExportThrows ==
  ( /\ call.done
    /\ \/ call.fn = "exportToJSON" /\ call.arg = <<>>
       \/ call.fn = "exportToSVG" /\ browser.container = "missing" )
  => call.ret.outcome = "thrown"

\* C18: every object URL created during an export is eventually revoked,
\* also when a later step of the export (appending the link, clicking it,
\* removing it) fails.
C18_ObjectUrlsEventuallyRevoked ==
  \A url \in Urls : (url \in browser.urls) ~> (url \notin browser.urls)

\* C19: when the decode of exportToWebP fails (the image stops loading
\* without a blob being requested), the failure reaches the caller: the
\* user is told to use the SVG export or the returned promise rejects;
\* and no file is downloaded.
C19_DecodeFailureIsReported ==
  [][ (\E img \in browser.loading :
         img \notin browser'.loading /\ img \notin browser'.blobs)
        => /\ \/ Len(browser'.alerts) > Len(browser.alerts)
              \/ call'.ret.outcome = "rejected"
           /\ browser'.downloads = browser.downloads ]_vars

\* C20: the promise returned by exportToWebP does not settle before the
\* image it started decoding has had its load or its error event.
C20_PromiseSettlesAfterDecode ==
  ( /\ call.fn = "exportToWebP"
    /\ call.done
    /\ call.ret.outcome \in {"fulfilled", "rejected"}
    /\ call.ret.img # 0 )
  => call.ret.img \notin browser.loading



\* where the arc of a path drawn by createSegmentPath starts and ends
ArcStart(path) == path[2].to
ArcEnd(path) == path[3].to

\* C21: a wheel of N >= 1 segments is rendered as N slices with N filled
\* paths; slice i (from 0) spans from i/N - 1/4 to (i+1)/N - 1/4 of a turn,
\* so consecutive slices share a boundary, all spans are 1/N of a turn
\* and the slices cover one full turn starting at 12 o'clock; the filled
\* path of slice i has the angles of the slice and radius 140 * value / 10,
\* and it is the empty string exactly when the value is 0.
C21_SlicesPartitionTheWheel ==
  (call.fn = "CircleWheel" /\ call.done /\ Len(call.arg.segments) >= 1) =>
    LET segments == call.arg.segments
        N == Len(segments)
        groups == call.ret.groups
        from(i) == ArcStart(groups[i].outline).angle
        to(i) == ArcEnd(groups[i].outline).angle
    IN /\ Len(groups) = N
       /\ \A i \in 1..N :
            /\ SameAngle(from(i), AngleMinus(Turn(i - 1, N), Turn(1, 4)))
            /\ SameAngle(to(i), AngleMinus(Turn(i, N), Turn(1, 4)))
            /\ SameAngle(AngleMinus(to(i), from(i)), Turn(1, N))
            /\ i < N => SameAngle(to(i), from(i + 1))
            /\ (groups[i].filled = <<>>) <=> (segments[i].value = 0)
            /\ groups[i].filled # <<>> =>
                 /\ 10 * ArcStart(groups[i].filled).r = 140 * segments[i].value
                 /\ 10 * ArcEnd(groups[i].filled).r = 140 * segments[i].value
                 /\ SameAngle(ArcStart(groups[i].filled).angle, from(i))
                 /\ SameAngle(ArcEnd(groups[i].filled).angle, to(i))
       /\ SameAngle(from(1), Turn(-1, 4))
       /\ SameAngle(AngleMinus(to(N), from(1)), Turn(1, 1))

\* a wheel of 20 segments has been rendered, some of value 0 and some of
\* value 10
C21_Witness ==
  /\ call.fn = "CircleWheel" /\ call.done
  /\ Len(call.arg.segments) = MAX_SEGMENTS
  /\ \E i, j \in DOMAIN call.arg.segments :
       /\ call.arg.segments[i].value = 0 /\ call.ret.groups[i].filled = <<>>
       /\ call.arg.segments[j].value = 10 /\ call.ret.groups[j].filled # <<>>

\* C25: for every number of segments from 1 to 20, the outline wedge of
\* each slice is a path whose arc starts and ends at two distinct points
\* and spans at most half a turn, which is what its large-arc flag 0 says.
C25_OutlineWedgesAreWellFormed ==
  ( /\ call.fn = "CircleWheel" /\ call.done
    /\ Len(call.arg.segments) \in MIN_SEGMENTS..MAX_SEGMENTS ) =>
    \A i \in DOMAIN call.ret.groups :
      LET outline == call.ret.groups[i].outline
          span == AngleMinus(ArcEnd(outline).angle, ArcStart(outline).angle)
      IN /\ outline # <<>>
         /\ outline[3].largeArc = 0
         /\ ~SamePoint(ArcStart(outline), ArcEnd(outline))
         /\ 2 * span.n <= span.d

\* C22: the SVG export of N wheels (N from 1 to 3) is 440 * N + 40 * (N - 1)
\* + 80 wide and 480 + 40 + 200 = 720 high; wheel i (from 0) is placed at
\* x = 40 + i * 480, y = 40, so that the 440-wide wheels are 40 apart, do
\* not overlap and lie between the left and right padding of 40.
C22_WheelsAreLaidOutInARow ==
  (call.fn = "exportToSVG" /\ call.done /\ Len(call.arg) \in 1..3) =>
    LET N == Len(call.arg)
        doc == call.ret
    IN /\ doc.width = 440 * N + 40 * (N - 1) + 80
       /\ doc.height = 720
       /\ Len(doc.wheels) = N
       /\ \A i \in 1..N :
            /\ doc.wheels[i].x = 40 + (i - 1) * 480
            /\ doc.wheels[i].y = 40
            /\ doc.wheels[i].x >= 40
            /\ doc.wheels[i].x + 440 <= doc.width - 40
            /\ i < N => doc.wheels[i + 1].x - (doc.wheels[i].x + 440) = 40

\* the document of three wheels has been built
C22_Witness ==
  /\ call.fn = "exportToSVG" /\ call.done
  /\ Len(call.arg) = 3
  /\ call.ret.width = 1480
  /\ call.ret.wheels[3].x = 1000

\* C23: in the exported SVG the filled bar of each wheel is
\* (canvas width - 80) * percentage / 100 wide, with percentage the value
\* of calculatePercentage for the wheel, derived from the average rounded
\* to one decimal; it is at least 0 and at most the background bar wide.
C23_FilledWidthFollowsPercentage ==
  (call.fn = "exportToSVG" /\ call.done) =>
    \A i \in DOMAIN call.arg :
      LET doc == call.ret
          fill == doc.bars[i].fill.width
          percentage == calculatePercentage(call.arg[i])
      IN /\ Len(doc.bars) = Len(call.arg)
         /\ fill.d > 0
         /\ fill.n * (percentage.d * 100) = ((doc.width - 80) * percentage.n) * fill.d
         /\ fill.n >= 0
         /\ fill.n <= doc.bars[i].track.width * fill.d
         /\ doc.bars[i].track.width = doc.width - 80

\* C24: for a working set of 2 or 3 wheels every comparison bar of the
\* exported SVG lies inside the canvas: the bars are 40 high, placed at
\* y = 520 + 40 + index * 60 + 20, and the bottom edge of the last one is
\* not below the canvas height of 720.
C24_BarsLieInsideTheCanvas ==
  (call.fn = "exportToSVG" /\ call.done /\ Len(call.arg) \in MIN_WHEELS..MAX_WHEELS) =>
    LET doc == call.ret
    IN \A i \in DOMAIN doc.bars :
         /\ doc.bars[i].track.height = 40
         /\ doc.bars[i].track.y = 520 + 40 + (i - 1) * 60 + 20
         /\ doc.bars[i].fill.y = doc.bars[i].track.y
         /\ doc.bars[i].track.y + doc.bars[i].track.height <= doc.height

\* C27: the document exportToWebP rasterizes is the document exportToSVG
\* builds for the same working set: the same translated wheels and the
\* same comparison section, its title and one bar per wheel.
C27_WebPDocumentIsTheSvgDocument ==
  (call.fn = "exportToWebP" /\ call.done) =>
    LET svg == combinedSVG(call.arg, ContainerSvgs(call.arg))
    IN /\ call.ret.width = svg.width
       /\ call.ret.height = svg.height
       /\ call.ret.wheels = svg.wheels
       /\ call.ret.title = svg.title
       /\ Len(call.ret.bars) = Len(call.arg)
       /\ call.ret.bars = svg.bars

\* C26: the statistics produce a result for a list of 0, 1, 2 or 3 wheels,
\* wheels without segments included: calculateAverage returns a number to
\* one decimal, doConsiderationsMatch a boolean, getHighestRatedWheels a
\* list of wheels, and the summary of ComparisonBars a tie or a leader.
C26_StatisticsTolerateAnySize ==
  call.done =>
    /\ call.fn = "calculateAverage" =>
         /\ Len(call.ret) >= 3
         /\ call.ret[Len(call.ret) - 1] = "."
         /\ \A i \in (DOMAIN call.ret) \ {Len(call.ret) - 1} : IsDigit(call.ret[i])
    /\ call.fn = "doConsiderationsMatch" => call.ret \in BOOLEAN
    /\ call.fn = "getHighestRatedWheels" => Range(call.ret) \subseteq Range(call.arg)
    /\ call.fn = "ComparisonBars" => call.ret.kind \in {"tie", "leader"}

\* C28: for a working set of at least 2 wheels, the summary of
\* ComparisonBars is the tie message exactly when getHighestRatedWheels
\* returns more than one wheel; when it names a leader, the leader is the
\* one wheel getHighestRatedWheels returns and the gap shown is at least
\* 0.1.
C28_SummaryAgreesWithHighestRated ==
  (call.fn = "ComparisonBars" /\ call.done /\ Len(call.arg) >= 2) =>
    LET highest == getHighestRatedWheels(call.arg)
    IN /\ call.ret.kind \in {"tie", "leader"}
       /\ (call.ret.kind = "tie") <=> (Len(highest) > 1)
       /\ call.ret.kind = "leader" =>
            /\ Len(highest) = 1
            /\ highest[1].name = call.ret.leader
            /\ call.ret.score = calculateAverage(highest[1])
            /\ parseFloat(call.ret.gap) >= 1

\* three wheels have been compared: the leader is 0.1 ahead of the second,
\* and the two other wheels are not at the top
C28_Witness ==
  /\ call.fn = "ComparisonBars" /\ call.done
  /\ Len(call.arg) = 3
  /\ call.ret.kind = "leader"
  /\ call.ret.gap = <<"0", ".", "1">>
  /\ Len(getHighestRatedWheels(call.arg)) = 1


\* the handlers that edit one wheel, as lastOp names them
EditHandlers ==
  { "updateWheelName", "updateWheelColor", "addSegment", "removeSegment",
    "updateSegmentName", "updateSegmentValue", "copyConsiderationsToWheel" }

\* the wheel with this id has a segment with this id
HasSegment(ws, wheelId, segmentId) ==
  \E i \in DOMAIN ws :
    ws[i].id = wheelId /\ \E j \in DOMAIN ws[i].segments : ws[i].segments[j].id = segmentId

\* C29: a call of updateWheelName, updateWheelColor, addSegment,
\* removeSegment, updateSegment or copyConsiderationsToWheel leaves the
\* number and the order of the wheels, nextWheelId and every wheel other
\* than the one whose id it is given (the target, for a copy) unchanged;
\* updateSegment changes only the named field of the segment with the
\* given id; a call with a wheel id or a segment id that does not exist
\* changes no wheel.
C29_EditsChangeOnlyTheirWheel ==
  [][ LET op == lastOp'
          target == IF op.op = "copyConsiderationsToWheel" THEN op.b ELSE op.a
      IN op.op \in EditHandlers =>
           /\ nextWheelId' = nextWheelId
           /\ Len(wheels') = Len(wheels)
           /\ \A i \in DOMAIN wheels :
                /\ wheels'[i].id = wheels[i].id
                /\ wheels[i].id # target => wheels'[i] = wheels[i]
           /\ ~HasWheel(wheels, target) => wheels' = wheels
           /\ ( /\ op.op = "copyConsiderationsToWheel"
                /\ ~HasWheel(wheels, op.a) ) => wheels' = wheels
           /\ ( /\ op.op \in {"removeSegment", "updateSegmentName", "updateSegmentValue"}
                /\ ~HasSegment(wheels, op.a, op.b) ) => wheels' = wheels
           /\ op.op \in {"updateSegmentName", "updateSegmentValue"} =>
                \A i \in DOMAIN wheels :
                  /\ wheels'[i].name = wheels[i].name
                  /\ wheels'[i].color = wheels[i].color
                  /\ Len(wheels'[i].segments) = Len(wheels[i].segments)
                  /\ \A j \in DOMAIN wheels[i].segments :
                       LET before == wheels[i].segments[j]
                           after == wheels'[i].segments[j]
                       IN /\ after.id = before.id
                          /\ before.id # op.b => after = before
                          /\ op.op = "updateSegmentName" => after.value = before.value
                          /\ op.op = "updateSegmentValue" => after.name = before.name
    ]_vars

\* updateSegment has set the value of segment 4 of wheel 2 to 3 while the
\* first wheel and the other segments of wheel 2 are the initial ones
C29_Witness ==
  /\ lastOp.op = "updateSegmentValue" /\ lastOp.a = 2 /\ lastOp.b = 4
  /\ Len(wheels) = 2
  /\ wheels[1] = InitialWheels[1]
  /\ wheels[2].segments[4] = [InitialWheels[2].segments[4] EXCEPT !.value = 3]
  /\ \A j \in 1..3 : wheels[2].segments[j] = InitialWheels[2].segments[j]

\* the segment the selection designates, when there is one
SelectedSegmentOf(ws, selected) ==
  LET w == FindWheel(ws, selected.wheelId)
  IN w.segments[CHOOSE j \in DOMAIN w.segments : w.segments[j].id = selected.segmentId]

\* C30: the selected segment, when set, is the segment that was clicked:
\* after every step the selection is null or designates a wheel and a
\* segment that exist; a selection that designated no segment does not
\* come to designate one; and the segment it designates is the one it
\* designated before the step, changed at most by an updateSegment of that
\* very segment.
C30_SelectionDesignatesClickedSegment ==
  [][ selectedSegment' # Null =>
        /\ HasSegment(wheels', selectedSegment'.wheelId, selectedSegment'.segmentId)
        /\ ( /\ selectedSegment' = selectedSegment
             /\ ~HasSegment(wheels, selectedSegment.wheelId, selectedSegment.segmentId) )
           => ~HasSegment(wheels', selectedSegment.wheelId, selectedSegment.segmentId)
        /\ ( /\ selectedSegment' = selectedSegment
             /\ HasSegment(wheels, selectedSegment.wheelId, selectedSegment.segmentId)
             /\ HasSegment(wheels', selectedSegment.wheelId, selectedSegment.segmentId) )
           => LET before == SelectedSegmentOf(wheels, selectedSegment)
                  after == SelectedSegmentOf(wheels', selectedSegment)
              IN \/ after = before
                 \/ /\ lastOp'.op \in {"updateSegmentName", "updateSegmentValue"}
                    /\ lastOp'.a = selectedSegment.wheelId
                    /\ lastOp'.b = selectedSegment.segmentId
    ]_vars
=============================================================================
